---- MODULE Spec2Model ----
(***************************************************************************)
(* A model of the path tracer of src/src: the render scheduler of main()   *)
(* (row tasks on a worker pool filling a mutex-guarded framebuffer), the   *)
(* recursive radiance estimator ray_color, Sphere::hit, Vec3::color_rgb    *)
(* and the image-plane coordinates handed to Camera::get_ray.              *)
(*                                                                         *)
(* Reals are modelled exactly as rationals: a colour channel is an integer *)
(* number of twentieths (Fx), a root of the sphere quadratic is a pair     *)
(* <<numerator, a>>, an image-plane coordinate is a numerator over a       *)
(* denominator.                                                            *)
(***************************************************************************)
EXTENDS Integers, Sequences, FiniteSets

VARIABLES
    \* ---- render scheduler, main.rs:84-140
    mainPc,     \* position of main(): "submit", "join", "encode", "done"
    nextY,      \* the y of the for loop at main.rs:94
    queue,      \* row tasks handed to pool.execute and not yet started
    wpc,        \* per pool thread: "idle", "sample", "lock", "write", "finish"
    wy,         \* per pool thread: the row y of the task it runs
    wx,         \* per pool thread: the column x of the for loop at main.rs:101
    ws,         \* per pool thread: samples taken for the pixel (main.rs:103)
    acc,        \* per pool thread: pixel_color, the accumulated radiance
    lock,       \* owner of the framebuffer mutex, or NoOwner
    data,       \* the framebuffer, one byte per index
    writes,     \* per byte index: how many stores it has received
    writers,    \* per byte index: the <<y, x, channel, thread>> that stored
    rngUsers,   \* per generator: the threads that have drawn from it
    completed,  \* rows whose task has run to its end (main.rs:122)
    encoded,    \* the buffers handed to write_image_data: none or one
    \* ---- ray_color, main.rs:25-44
    cpc,        \* "idle", "enter", "return", "done"
    stack,      \* the nested invocations of ray_color, innermost last
    retval,     \* the colour being returned
    exhausted,  \* some invocation of this path ran with depth 0
    calls,      \* invocations of ray_color made for this path
    scatters,   \* scatter events (Some from Scatter::scatter) of this path
    \* ---- Sphere::hit, sphere.rs:24-60
    hitIn,      \* the sphere, the ray and the interval of one call
    hitOut,     \* its result, tagged "NotCalled", "None" or "Some" (with t)
    \* ---- Vec3::color_rgb, vec3.rs:64-70
    rgbIn,      \* an accumulated colour and the sample count
    rgbOut,     \* the byte triple (r, g, b), or <<>> before the call
    \* ---- the coordinates passed to Camera::get_ray, main.rs:106-113
    uvIn,       \* pixel and jitter of one sample
    uvOut       \* the u and v computed for it, tagged "NotCalled" or "Some"

renderVars == <<mainPc, nextY, queue, wpc, wy, wx, ws, acc, lock, data,
                writes, writers, rngUsers, completed, encoded>>
colorVars  == <<cpc, stack, retval, exhausted, calls, scatters>>
hitVars    == <<hitIn, hitOut>>
rgbVars    == <<rgbIn, rgbOut>>
uvVars     == <<uvIn, uvOut>>
vars == <<renderVars, colorVars, hitVars, rgbVars, uvVars>>
notRender == <<colorVars, hitVars, rgbVars, uvVars>>

NotCalled  == [tag |-> "NotCalled"]
NoOwner    == 0

(***************************************************************************)
(* Bounds.  The program's values are in the comments; the model runs the   *)
(* same code on a smaller image.                                           *)
(***************************************************************************)
\* main.rs:49 has 1200
IMAGE_WIDTH == 2
\* main.rs:50 has 800
IMAGE_HEIGHT == 2
\* main.rs:51 has 500
SAMPLES_PER_PIXEL == 1
\* main.rs:90 has 8
NUM_THREADS == 2

Rows     == 0 .. (IMAGE_HEIGHT - 1)
Columns  == 0 .. (IMAGE_WIDTH - 1)
Channels == 0 .. 2
Threads  == 1 .. NUM_THREADS
BufferLen == IMAGE_HEIGHT * IMAGE_WIDTH * 3
Indices  == 0 .. (BufferLen - 1)

(***************************************************************************)
(* Colours: Color::new(r, g, b) with each channel in twentieths.           *)
(***************************************************************************)
Fx(tenths) == 2 * tenths
Color(r, g, b) == <<r, g, b>>
Black == Color(Fx(0), Fx(0), Fx(0))
White == Color(Fx(10), Fx(10), Fx(10))
ColorAdd(a, b) == <<a[1] + b[1], a[2] + b[2], a[3] + b[3]>>
ColorMul(a, b) == <<(a[1] * b[1]) \div Fx(10), (a[2] * b[2]) \div Fx(10),
                    (a[3] * b[3]) \div Fx(10)>>

(***************************************************************************)
(* Vec3::color_rgb, one channel: (256 * sqrt(a/n).clamp(0, 0.999)) as u8,  *)
(* for a in twentieths.  A negative a gives sqrt = NaN, which clamp keeps   *)
(* and the cast turns into 0.  sqrt(a/n) >= 0.999 exactly when             *)
(* a/n >= 0.998001; below that the byte is floor(256 * sqrt(a/n)), the     *)
(* integer square root of floor(65536 * a/n).                              *)
(***************************************************************************)
\* The largest r with r*r <= x, built bit by bit from the bit `bit` down.
RECURSIVE SqrtBits(_, _, _)
SqrtBits(x, r, bit) ==
    IF bit = 0 THEN r
    ELSE IF (r + bit) * (r + bit) <= x THEN SqrtBits(x, r + bit, bit \div 2)
         ELSE SqrtBits(x, r, bit \div 2)

FloorSqrt(x) == SqrtBits(x, 0, 32768)

\* `as u8` of a float that is not NaN: truncation, saturating at 0 and 255.
AsU8(n) == IF n < 0 THEN 0 ELSE IF n > 255 THEN 255 ELSE n

\* Variant: a cast that wraps instead of saturating.
AsU8Wrapping(n) == n % 256

\* Variant: color_rgb without the clamp, cast with wrap-around.
ChannelByteNoClamp(a, n) ==
    IF a < 0 THEN 0
    ELSE AsU8Wrapping(FloorSqrt((65536 * a) \div (n * Fx(10))))

ChannelByte(a, n) ==
    IF a < 0 THEN 0
    ELSE IF a * 1000000 >= 998001 * n * Fx(10)
         THEN AsU8((256 * 999) \div 1000)
         ELSE AsU8(FloorSqrt((65536 * a) \div (n * Fx(10))))

color_rgb(c, samples_per_pixel) ==
    <<ChannelByte(c[1], samples_per_pixel),
      ChannelByte(c[2], samples_per_pixel),
      ChannelByte(c[3], samples_per_pixel)>>

(***************************************************************************)
(* The byte index of channel c of pixel (x, y), main.rs:118-120.           *)
(***************************************************************************)
\* Variant: rows stored in sampling order.
OffsetNoFlip(x, y, c) == y * IMAGE_WIDTH * 3 + x * 3 + c

\* Variant: the row term left out.
OffsetNoRow(x, y, c) == x * 3 + c

Offset(x, y, c) == (IMAGE_HEIGHT - y - 1) * IMAGE_WIDTH * 3 + x * 3 + c

(***************************************************************************)
(* rand::thread_rng(): the generator of the calling thread.                *)
(***************************************************************************)
\* Variant: one generator for every thread.
SharedRng(w) == 1

thread_rng(w) == w

\* One use by thread w of the generator thread_rng() gives it: the generator
\* is read and advanced, and the use is logged against it.
Drawn(w) == rngUsers' = [rngUsers EXCEPT ![thread_rng(w)] = @ \cup {w}]

(***************************************************************************)
(* The render scheduler.                                                   *)
(***************************************************************************)
InitRender ==
    /\ mainPc = "submit"
    /\ nextY = 0
    /\ queue = <<>>
    /\ wpc = [w \in Threads |-> "idle"]
    /\ wy = [w \in Threads |-> 0]
    /\ wx = [w \in Threads |-> 0]
    /\ ws = [w \in Threads |-> 0]
    /\ acc = [w \in Threads |-> Black]
    /\ lock = NoOwner
    /\ data = [i \in Indices |-> 0]
    /\ writes = [i \in Indices |-> 0]
    /\ writers = [i \in Indices |-> {}]
    /\ rngUsers = [g \in Threads |-> {}]
    /\ completed = {}
    /\ encoded = {}

\* main.rs:94-125: pool.execute(row task y); after the last one, pool.join().
Execute ==
    /\ mainPc = "submit"
    /\ nextY < IMAGE_HEIGHT
    /\ queue' = Append(queue, nextY)
    /\ nextY' = nextY + 1
    /\ mainPc' = IF nextY + 1 = IMAGE_HEIGHT THEN "join" ELSE "submit"
    /\ UNCHANGED notRender
    /\ UNCHANGED <<wpc, wy, wx, ws, acc, lock, data, writes, writers,
                   rngUsers, completed, encoded>>

\* A pool thread takes the oldest queued task and enters it, main.rs:97-102.
StartRow(w) ==
    /\ wpc[w] = "idle"
    /\ queue # <<>>
    /\ wy' = [wy EXCEPT ![w] = Head(queue)]
    /\ queue' = Tail(queue)
    /\ wx' = [wx EXCEPT ![w] = 0]
    /\ ws' = [ws EXCEPT ![w] = 0]
    /\ acc' = [acc EXCEPT ![w] = Black]
    /\ wpc' = [wpc EXCEPT ![w] = "sample"]
    /\ UNCHANGED notRender
    /\ UNCHANGED <<mainPc, nextY, lock, data, writes, writers, rngUsers,
                   completed, encoded>>

\* One turn of a rejection loop (vec3.rs:83-88, 119-124) that draws a point
\* outside the unit ball or disk and goes round again.
RejectDraw(w) ==
    /\ wpc[w] = "sample"
    /\ Drawn(w)
    /\ UNCHANGED notRender
    /\ UNCHANGED <<mainPc, nextY, queue, wpc, wy, wx, ws, acc, lock, data,
                   writes, writers, completed, encoded>>

\* One sample of the pixel, main.rs:103-115.  Its draws (the jitter here,
\* the lens disk in get_ray, the unit sphere and the reflectance in the
\* materials) all come from thread_rng().  In the scheduler's model ray_color
\* returns white for every sample; SpecColor has its outcomes.
Sample(w) ==
    /\ wpc[w] = "sample"
    /\ Drawn(w)
    /\ acc' = [acc EXCEPT ![w] = ColorAdd(@, White)]
    /\ ws' = [ws EXCEPT ![w] = @ + 1]
    /\ wpc' = [wpc EXCEPT ![w] =
                  IF ws[w] + 1 = SAMPLES_PER_PIXEL THEN "lock" ELSE "sample"]
    /\ UNCHANGED notRender
    /\ UNCHANGED <<mainPc, nextY, queue, wy, wx, lock, data, writes, writers,
                   completed, encoded>>

\* main.rs:116-117: color_rgb, then data_clone.lock().
Lock(w) ==
    /\ wpc[w] = "lock"
    /\ lock = NoOwner
    /\ lock' = w
    /\ wpc' = [wpc EXCEPT ![w] = "write"]
    /\ UNCHANGED notRender
    /\ UNCHANGED <<mainPc, nextY, queue, wy, wx, ws, acc, data, writes,
                   writers, rngUsers, completed, encoded>>

\* Variant: the guard outlives the loop body.
GuardKept(w) == w

\* The mutex once the guard `data` goes out of scope, main.rs:121.

GuardDropped(w) == NoOwner

\* main.rs:118-121: the three stores, then the guard is dropped at the end of
\* the loop body and the x loop goes on.  An index outside the vector panics:
\* the thread unwinds out of the task.
Write(w) ==
    LET rgb == color_rgb(acc[w], SAMPLES_PER_PIXEL)
        at(c) == Offset(wx[w], wy[w], c)
        hitBy(i) == {c \in Channels : at(c) = i}
        last(i) == CHOOSE c \in hitBy(i) : \A d \in hitBy(i) : d <= c
    IN  /\ wpc[w] = "write"
        /\ lock = w
        /\ IF \A c \in Channels : at(c) \in Indices
           THEN /\ data' = [i \in Indices |->
                               IF hitBy(i) = {} THEN data[i] ELSE rgb[last(i) + 1]]
                /\ writes' = [i \in Indices |-> writes[i] + Cardinality(hitBy(i))]
                /\ writers' = [i \in Indices |->
                       writers[i] \cup {<<wy[w], wx[w], c, w>> : c \in hitBy(i)}]
                /\ lock' = GuardDropped(w)
                /\ wx' = [wx EXCEPT ![w] = @ + 1]
                /\ ws' = [ws EXCEPT ![w] = 0]
                /\ acc' = [acc EXCEPT ![w] = Black]
                /\ wpc' = [wpc EXCEPT ![w] =
                       IF wx[w] + 1 = IMAGE_WIDTH THEN "finish" ELSE "sample"]
           ELSE /\ wpc' = [wpc EXCEPT ![w] = "panicked"]
                /\ lock' = GuardDropped(w)
                /\ UNCHANGED <<data, writes, writers, wx, ws, acc>>
        /\ UNCHANGED notRender
        /\ UNCHANGED <<mainPc, nextY, queue, wy, rngUsers, completed,
                       encoded>>

\* main.rs:122-124: the task ends and the thread goes back to the pool.
Finish(w) ==
    /\ wpc[w] = "finish"
    /\ completed' = completed \cup {wy[w]}
    /\ wpc' = [wpc EXCEPT ![w] = "idle"]
    /\ UNCHANGED notRender
    /\ UNCHANGED <<mainPc, nextY, queue, wy, wx, ws, acc, lock, data, writes,
                   writers, rngUsers, encoded>>

\* Variant: a join that waits for the queue to drain only.
JoinQueueOnly ==
    /\ mainPc = "join"
    /\ queue = <<>>
    /\ mainPc' = "encode"
    /\ UNCHANGED notRender
    /\ UNCHANGED <<nextY, queue, wpc, wy, wx, ws, acc, lock, data, writes,
                   writers, rngUsers, completed, encoded>>

\* main.rs:126: pool.join() returns once no task is queued or active.
Join ==
    /\ mainPc = "join"
    /\ queue = <<>>
    /\ \A w \in Threads : wpc[w] = "idle"
    /\ mainPc' = "encode"
    /\ UNCHANGED notRender
    /\ UNCHANGED <<nextY, queue, wpc, wy, wx, ws, acc, lock, data, writes,
                   writers, rngUsers, completed, encoded>>

\* main.rs:137-140: data.lock(), write_image_data(the buffer), unlock.
Encode ==
    /\ mainPc = "encode"
    /\ lock = NoOwner
    /\ encoded' = {data}
    /\ mainPc' = "done"
    /\ UNCHANGED notRender
    /\ UNCHANGED <<nextY, queue, wpc, wy, wx, ws, acc, lock, data, writes,
                   writers, rngUsers, completed>>

IdleColor ==
    /\ cpc = "idle" /\ stack = <<>> /\ retval = Black /\ exhausted = FALSE
    /\ calls = 0 /\ scatters = 0
IdleHit   == /\ hitIn = NotCalled /\ hitOut = NotCalled
IdleRgb   == /\ rgbIn = NotCalled /\ rgbOut = <<>>
IdleUV    == /\ uvIn = NotCalled /\ uvOut = NotCalled

Init == InitRender /\ IdleColor /\ IdleHit /\ IdleRgb /\ IdleUV

Next ==
    \/ Execute
    \/ \E w \in Threads : StartRow(w)
    \/ \E w \in Threads : RejectDraw(w)
    \/ \E w \in Threads : Sample(w)
    \/ \E w \in Threads : Lock(w)
    \/ \E w \in Threads : Write(w)
    \/ \E w \in Threads : Finish(w)
    \/ Join
    \/ Encode

Spec == Init /\ [][Next]_vars

\* What main() does next, and what pool thread w does next.  A thread in a
\* rejection loop goes on by accepting: its rejected draws are RejectDraw.
MainStep == Execute \/ Join \/ Encode

ThreadStep(w) == StartRow(w) \/ Sample(w) \/ Lock(w) \/ Write(w) \/ Finish(w)

\* main() and the pool's threads all keep running, and a rejection loop that
\* can accept does accept in the end.
FairSpec ==
    /\ Spec
    /\ WF_vars(MainStep)
    /\ \A w \in Threads : WF_vars(ThreadStep(w))

(***************************************************************************)
(* ray_color, main.rs:25-44, one step per decision of one invocation.  The *)
(* scene is the four spheres of main.rs:57-67; which of them a ray hits,   *)
(* whether the metal absorbs and where a missing ray points are free.      *)
(***************************************************************************)
\* main.rs:52 has 50
MAX_DEPTH == 3

Materials == {"ground", "center", "right", "left_inner"}

Absorbed == <<>>

\* Scatter::scatter: the attenuation of Some((attenuation, scattered)), or
\* Absorbed for None.  Lambertian (material.rs:38) and Dielectric
\* (material.rs:111) always scatter, Metal (material.rs:61-65) may absorb.
ScatterOutcomes(m) ==
    CASE m = "ground"     -> {Color(Fx(8), Fx(8), Fx(0))}
      [] m = "center"     -> {Color(Fx(10), Fx(10), Fx(10))}
      [] m = "left_inner" -> {Color(Fx(10), Fx(10), Fx(10))}
      [] m = "right"      -> {Color(Fx(8), Fx(6), Fx(2)), Absorbed}

\* main.rs:40-42 for a unit direction whose y is -1, 0 or 1: t = 0.5*(y+1),
\* (1-t)*white + t*(0.5, 0.7, 1.0); twoT is 2t.
Background(y) ==
    LET twoT == y + 1
        mix(blue) == ((2 - twoT) * Fx(10) + twoT * blue) \div 2
    IN  Color(mix(Fx(5)), mix(Fx(7)), mix(Fx(10)))

\* Variant: a test no u64 satisfies.
DepthNeverExhausted(depth) == depth < 0

\* main.rs:26: the bounce limit is reached.

DepthExhausted(depth) == depth <= 0

\* main.rs:34: depth-1 on a u64; from 0 a release build wraps to 2^64 - 1,
\* for which U64Wrapped stands.
U64Wrapped == 2147483647

\* Variant: the depth passed on as it is.
DepthUnchanged(depth) == depth

DepthMinusOne(depth) == IF depth >= 1 THEN depth - 1 ELSE U64Wrapped

\* What main.rs:28 returns.
ExhaustedColor == Black

\* The model stops nesting a little beyond the deepest nesting of the code.
StackLimit == MAX_DEPTH + 3

Frame(depth) == [depth |-> depth, att |-> Absorbed, hits |-> 0, scats |-> 0]

Top == stack[Len(stack)]

SetTop(f) == [stack EXCEPT ![Len(stack)] = f]

\* main.rs:114: ray_color(&r, &arc_world, MAX_DEPTH).
FirstCall ==
    /\ cpc = "enter"
    /\ stack = <<Frame(MAX_DEPTH)>>
    /\ retval = Black
    /\ exhausted = FALSE
    /\ calls = 1
    /\ scatters = 0

\* main.rs:26-29.
DepthZero ==
    /\ cpc = "enter"
    /\ DepthExhausted(Top.depth)
    /\ retval' = ExhaustedColor
    /\ exhausted' = TRUE
    /\ cpc' = "return"
    /\ UNCHANGED <<stack, calls, scatters>>
    /\ UNCHANGED <<renderVars, hitVars, rgbVars, uvVars>>

\* main.rs:31, 38-43: world.hit finds nothing, the background is returned.
Miss ==
    /\ cpc = "enter"
    /\ ~DepthExhausted(Top.depth)
    /\ \E y \in {-1, 0, 1} : retval' = Background(y)
    /\ stack' = SetTop([Top EXCEPT !.hits = @ + 1])
    /\ cpc' = "return"
    /\ UNCHANGED <<exhausted, calls, scatters>>
    /\ UNCHANGED <<renderVars, hitVars, rgbVars, uvVars>>

\* main.rs:31-34: a hit whose material scatters; ray_color is called for the
\* scattered ray with depth-1.
HitScatter ==
    /\ cpc = "enter"
    /\ ~DepthExhausted(Top.depth)
    /\ Len(stack) < StackLimit
    /\ \E m \in Materials : \E a \in ScatterOutcomes(m) \ {Absorbed} :
          stack' = Append(SetTop([Top EXCEPT !.hits = @ + 1, !.scats = @ + 1,
                                             !.att = a]),
                          Frame(DepthMinusOne(Top.depth)))
    /\ calls' = calls + 1
    /\ scatters' = scatters + 1
    /\ UNCHANGED <<cpc, retval, exhausted>>
    /\ UNCHANGED <<renderVars, hitVars, rgbVars, uvVars>>

\* main.rs:31-37: a hit whose material absorbs.
HitAbsorb ==
    /\ cpc = "enter"
    /\ ~DepthExhausted(Top.depth)
    /\ \E m \in Materials : Absorbed \in ScatterOutcomes(m)
    /\ stack' = SetTop([Top EXCEPT !.hits = @ + 1, !.scats = @ + 1])
    /\ retval' = Black
    /\ cpc' = "return"
    /\ UNCHANGED <<exhausted, calls, scatters>>
    /\ UNCHANGED <<renderVars, hitVars, rgbVars, uvVars>>

\* The return of the innermost invocation: to its caller, which multiplies by
\* its attenuation (main.rs:34) and returns in turn, or out of the first call.
Return ==
    /\ cpc = "return"
    /\ stack' = SubSeq(stack, 1, Len(stack) - 1)
    /\ IF Len(stack) = 1
       THEN /\ cpc' = "done"
            /\ retval' = retval
       ELSE /\ cpc' = "return"
            /\ retval' = ColorMul(stack[Len(stack) - 1].att, retval)
    /\ UNCHANGED <<exhausted, calls, scatters>>
    /\ UNCHANGED <<renderVars, hitVars, rgbVars, uvVars>>

IdleRender ==
    /\ mainPc = "idle" /\ nextY = 0 /\ queue = <<>>
    /\ wpc = <<>> /\ wy = <<>> /\ wx = <<>> /\ ws = <<>> /\ acc = <<>>
    /\ lock = NoOwner /\ data = <<>> /\ writes = <<>> /\ writers = <<>>
    /\ rngUsers = <<>> /\ completed = {} /\ encoded = {}

NextColor == DepthZero \/ Miss \/ HitScatter \/ HitAbsorb \/ Return

InitColor == FirstCall /\ IdleRender /\ IdleHit /\ IdleRgb /\ IdleUV

SpecColor == InitColor /\ [][NextColor]_vars

\* An invocation that can take its next step takes it.
FairSpecColor == SpecColor /\ WF_vars(NextColor)

(***************************************************************************)
(* Sphere::hit, sphere.rs:24-60.  Vectors have integer components; the     *)
(* calls are those whose discriminant is negative or a perfect square, so  *)
(* that sqrtd is an integer and a root is the rational <<n, a>> = n/a.     *)
(* The direction is never the zero vector (a > 0): no ray of the program   *)
(* has one.                                                                *)
(***************************************************************************)
HitCoord == 2
HitTMax == 2

Dot(u, v) == u[1] * v[1] + u[2] * v[2] + u[3] * v[3]
Sub(u, v) == <<u[1] - v[1], u[2] - v[2], u[3] - v[3]>>

Coords == (0 - HitCoord) .. HitCoord
\* Centres and directions in the plane y = 0, origins on the z axis.
HitCentres    == {<<x, 0, z>> : x \in Coords, z \in Coords}
HitDirections == {<<x, 0, z>> : x \in -1 .. 1, z \in -1 .. 1} \ {<<0, 0, 0>>}
HitOrigins    == {<<0, 0, 0>>, <<0, 0, 1>>}
HitRadii      == Coords \ {0}
HitTimes      == 0 .. HitTMax

\* sphere.rs:25-31.
QuadA(in)     == Dot(in.direction, in.direction)
QuadHalfB(in) == Dot(Sub(in.origin, in.center), in.direction)
QuadC(in)     == Dot(Sub(in.origin, in.center), Sub(in.origin, in.center))
                     - in.radius * in.radius
Discriminant(in) == QuadHalfB(in) * QuadHalfB(in) - QuadA(in) * QuadC(in)

IsSquare(n) == n >= 0 /\ FloorSqrt(n) * FloorSqrt(n) = n

\* Variant: the test against t_max left out.
OutOfRangeNoMax(n, a, t_min, t_max) == n < t_min * a

\* sphere.rs:40, 42: root < t_min || t_max < root, for root = n/a with a > 0.

OutOfRange(n, a, t_min, t_max) == n < t_min * a \/ t_max * a < n

\* sphere.rs:33-59: the result of the call, its t as <<n, a>>.
SphereHit(in) ==
    LET a      == QuadA(in)
        half_b == QuadHalfB(in)
        disc   == Discriminant(in)
        sqrtd  == FloorSqrt(disc)
        first  == (0 - half_b) - sqrtd
        second == (0 - half_b) + sqrtd
    IN  IF disc < 0 THEN [tag |-> "None"]
        ELSE IF ~OutOfRange(first, a, in.t_min, in.t_max)
             THEN [tag |-> "Some", t |-> <<first, a>>]
             ELSE IF ~OutOfRange(second, a, in.t_min, in.t_max)
                  THEN [tag |-> "Some", t |-> <<second, a>>]
                  ELSE [tag |-> "None"]

InitHit ==
    /\ hitIn \in [origin : HitOrigins, direction : HitDirections,
                  center : HitCentres, radius : HitRadii,
                  t_min : HitTimes, t_max : HitTimes]
    /\ Discriminant(hitIn) < 0 \/ IsSquare(Discriminant(hitIn))
    /\ hitOut = NotCalled
    /\ IdleRender /\ IdleColor /\ IdleRgb /\ IdleUV

CallHit ==
    /\ hitOut = NotCalled
    /\ hitOut' = SphereHit(hitIn)
    /\ UNCHANGED <<hitIn, renderVars, colorVars, rgbVars, uvVars>>

SpecHit == InitHit /\ [][CallHit]_vars

(***************************************************************************)
(* Vec3::color_rgb as a call of its own, vec3.rs:64-70.                    *)
(***************************************************************************)
MaxSamples == 2

\* Channel values in twentieths, from below zero to above the radiance
\* MaxSamples at which every sample count saturates.
Radiances == (0 - 1) .. (MaxSamples * Fx(10) + 2)

InitRgb ==
    /\ rgbIn \in [c : {Color(r, g, b) : r \in Radiances, g \in Radiances,
                                       b \in {0 - 1, 0, Fx(10), MaxSamples * Fx(10)}},
                  n : 1 .. MaxSamples]
    /\ rgbOut = <<>>
    /\ IdleRender /\ IdleColor /\ IdleHit /\ IdleUV

CallRgb ==
    /\ rgbOut = <<>>
    /\ rgbOut' = color_rgb(rgbIn.c, rgbIn.n)
    /\ UNCHANGED <<rgbIn, renderVars, colorVars, hitVars, uvVars>>

SpecRgb == InitRgb /\ [][CallRgb]_vars

(***************************************************************************)
(* The coordinates of one sample, main.rs:106-113.  rng.gen() is a         *)
(* multiple of 1/JitterSteps in [0, 1); u and v are <<numerator,           *)
(* denominator>>.                                                          *)
(***************************************************************************)
JitterSteps == 4

Jitter == 0 .. (JitterSteps - 1)

\* main.rs:109: ((x as f64) + rand_u) / ((IMAGE_WIDTH - 1) as f64).
PixelU(x, rand_u) == <<x * JitterSteps + rand_u, (IMAGE_WIDTH - 1) * JitterSteps>>

\* main.rs:110: ((y as f64) + rand_v) / ((IMAGE_HEIGHT - 1) as f64).
PixelV(y, rand_v) == <<y * JitterSteps + rand_v, (IMAGE_HEIGHT - 1) * JitterSteps>>

InitUV ==
    /\ uvIn \in [x : Columns, y : Rows, rand_u : Jitter, rand_v : Jitter]
    /\ uvOut = NotCalled
    /\ IdleRender /\ IdleColor /\ IdleHit /\ IdleRgb

\* main.rs:113: cam.get_ray(u, v).
CallGetRay ==
    /\ uvOut = NotCalled
    /\ uvOut' = [tag |-> "Some", u |-> PixelU(uvIn.x, uvIn.rand_u),
                 v |-> PixelV(uvIn.y, uvIn.rand_v)]
    /\ UNCHANGED <<uvIn, renderVars, colorVars, hitVars, rgbVars>>

SpecUV == InitUV /\ [][CallGetRay]_vars

(***************************************************************************)
(* Claims about the render scheduler.                                      *)
(***************************************************************************)
Rendered == mainPc \in {"encode", "done"}

\* C1: no byte index is ever stored to twice, nor by two row tasks or two
\* threads, and once rendering has finished every byte index has been stored
\* to exactly once, by exactly one thread.
C1_ExactlyOnce ==
    /\ \A i \in Indices : writes[i] <= 1 /\ Cardinality(writers[i]) <= 1
    /\ Rendered => \A i \in Indices :
                      writes[i] = 1 /\ Cardinality(writers[i]) = 1

\* Rendering has finished and two different threads have written rows.
C1_Witness ==
    /\ mainPc = "done"
    /\ \E i, j \in Indices : \E e \in writers[i], f \in writers[j] : e[4] # f[4]

\* C2: the buffer is handed to the encoder only when every row task has been
\* submitted and has completed and no thread is in a task, and what the
\* encoder was given is the buffer's final content, every cell written.
C2_HandOffAfterJoin ==
    /\ Rendered => /\ nextY = IMAGE_HEIGHT
                   /\ queue = <<>>
                   /\ \A w \in Threads : wpc[w] = "idle"
                   /\ completed = Rows
    /\ mainPc = "done" => encoded # {}
    /\ \A buf \in encoded :
          /\ buf = data
          /\ \A i \in Indices : writes[i] = 1 /\ buf[i] = 255

\* The encoder has been given a fully rendered buffer.
C2_Witness ==
    /\ mainPc = "done"
    /\ completed = Rows
    /\ \E buf \in encoded : \A i \in Indices : buf[i] = 255

\* C3: channel c of pixel (x, y) is stored at (height-1-y)*width*3 + x*3 + c;
\* no two (x, y, c) share an offset, no offset is outside the buffer, and the
\* buffer is row-major with output row 0 holding the row y = height-1.
C3_OffsetLayout ==
    /\ \A w \in Threads : wpc[w] # "panicked"
    /\ \A i \in Indices :
          /\ Cardinality({<<e[1], e[2], e[3]>> : e \in writers[i]}) <= 1
          /\ \A e \in writers[i] :
                /\ i = (IMAGE_HEIGHT - 1 - e[1]) * IMAGE_WIDTH * 3 + e[2] * 3 + e[3]
                /\ i \div (IMAGE_WIDTH * 3) = IMAGE_HEIGHT - 1 - e[1]
                /\ (i % (IMAGE_WIDTH * 3)) \div 3 = e[2]
                /\ i % 3 = e[3]
                /\ i < IMAGE_WIDTH * 3 => e[1] = IMAGE_HEIGHT - 1

\* The whole image is stored, the first byte by the last row sampled and the
\* last byte by the last column of row y = 0.
C3_Witness ==
    /\ mainPc = "done"
    /\ \E e \in writers[0] : e[1] = IMAGE_HEIGHT - 1 /\ e[2] = 0 /\ e[3] = 0
    /\ \E e \in writers[BufferLen - 1] :
          e[1] = 0 /\ e[2] = IMAGE_WIDTH - 1 /\ e[3] = 2

\* C6: a generator is only ever drawn from by the thread it belongs to.
C6_RngIsolated == \A g \in Threads : rngUsers[g] \subseteq {g}

\* Two threads have drawn, each from its own generator, while both are
\* sampling.
C6_Witness ==
    \E v, w \in Threads :
       /\ v # w
       /\ wpc[v] = "sample" /\ wpc[w] = "sample"
       /\ rngUsers[v] = {v} /\ rngUsers[w] = {w}

\* C8: the render runs to completion: every row task is started and runs to
\* its end having locked, stored and unlocked for each of its pixels, main()
\* gets past pool.join() to its end, and a thread that waits for the
\* framebuffer lock gets it.
C8_RenderCompletes ==
    /\ <>(/\ mainPc = "done"
          /\ completed = Rows
          /\ \A i \in Indices : writes[i] = 1
          /\ \A w \in Threads : wpc[w] = "idle"
          /\ lock = NoOwner)
    /\ \A w \in Threads : (wpc[w] = "lock") ~> (lock = w)

\* A thread waits for the lock while another holds it.
C8_Witness ==
    \E v, w \in Threads : v # w /\ wpc[v] = "lock" /\ lock = w /\ wpc[w] = "write"

(***************************************************************************)
(* Claims about ray_color.                                                 *)
(***************************************************************************)
\* C4: an invocation of ray_color with depth 0 returns black and has called
\* neither world.hit nor a material's scatter; and a path on which the bounce
\* budget ran out yields black whatever it hit before.
C4_DepthZeroBlack ==
    /\ (cpc = "return" /\ Top.depth = 0) =>
          /\ retval = Black
          /\ Top.hits = 0
          /\ Top.scats = 0
    /\ (cpc \in {"return", "done"} /\ exhausted) => retval = Black

\* The invocation with depth 0 returns under MAX_DEPTH scatterings none of
\* which attenuates to black.
C4_Witness ==
    /\ cpc = "return"
    /\ Len(stack) = MAX_DEPTH + 1
    /\ Top.depth = 0
    /\ \A k \in 1 .. MAX_DEPTH : stack[k].att = White

\* C10: every invocation has a depth in 0..MAX_DEPTH, one less than its
\* caller's; there are never more than MAX_DEPTH + 1 invocations, nested or
\* in all, nor more than MAX_DEPTH scatter events; and the first call returns.
C10_RecursionBounded ==
    /\ [](/\ Len(stack) <= MAX_DEPTH + 1
          /\ calls <= MAX_DEPTH + 1
          /\ scatters <= MAX_DEPTH
          /\ \A k \in 1 .. Len(stack) : stack[k].depth = MAX_DEPTH - (k - 1))
    /\ <>(cpc = "done")

\* A path that used the whole budget has returned.
C10_Witness ==
    /\ cpc = "done"
    /\ calls = MAX_DEPTH + 1
    /\ scatters = MAX_DEPTH

(***************************************************************************)
(* Claims about Sphere::hit, Vec3::color_rgb and the get_ray coordinates.  *)
(***************************************************************************)
\* The roots of a*t^2 + 2*half_b*t + c = 0 as numerators n of t = n/a, found
\* by search, and those of them inside [t_min, t_max].  |half_b| is at most
\* 2*(HitCoord+1) and sqrtd at most |half_b| + 2*HitCoord.
HitRootBound == 6 * (HitCoord + 1)

QuadRoots(in) ==
    {n \in (0 - HitRootBound) .. HitRootBound :
        n * n + 2 * QuadHalfB(in) * n + QuadA(in) * QuadC(in) = 0}

RootsInside(in) ==
    {n \in QuadRoots(in) : in.t_min * QuadA(in) <= n /\ n <= in.t_max * QuadA(in)}

\* C5: Sphere::hit returns a record exactly when the quadratic has a real
\* root in [t_min, t_max]; its t is then in the interval, and is the smaller
\* root if that one is in the interval and the larger root otherwise.
C5_RootInInterval ==
    hitOut # NotCalled =>
       IF RootsInside(hitIn) = {}
       THEN hitOut.tag = "None"
       ELSE /\ hitOut.tag = "Some"
            /\ hitOut.t[2] = QuadA(hitIn)
            /\ hitIn.t_min * hitOut.t[2] <= hitOut.t[1]
            /\ hitOut.t[1] <= hitIn.t_max * hitOut.t[2]
            /\ hitOut.t[1] \in RootsInside(hitIn)
            /\ \A n \in RootsInside(hitIn) : hitOut.t[1] <= n

\* The smaller root is below t_min, the larger is in the interval and is the
\* one returned.
C5_Witness ==
    /\ hitOut # NotCalled
    /\ hitOut.tag = "Some"
    /\ \E n \in QuadRoots(hitIn) : n < hitIn.t_min * QuadA(hitIn) /\ n < hitOut.t[1]
    /\ hitOut.t[1] < hitIn.t_max * QuadA(hitIn)

\* C7: every channel byte is in 0..255; a channel with no more radiance than
\* another gets no larger a byte; radiance 0 gives 0 and radiance of at least
\* the sample count gives 255.
C7_RgbRangeMonotonic ==
    rgbOut # <<>> =>
       /\ \A k \in 1 .. 3 : rgbOut[k] \in 0 .. 255
       /\ \A j, k \in 1 .. 3 : rgbIn.c[j] <= rgbIn.c[k] => rgbOut[j] <= rgbOut[k]
       /\ \A k \in 1 .. 3 : rgbIn.c[k] = 0 => rgbOut[k] = 0
       /\ \A k \in 1 .. 3 : rgbIn.c[k] >= rgbIn.n * Fx(10) => rgbOut[k] = 255

\* Three channels with increasing radiance, the last saturated, and three
\* different bytes.
C7_Witness ==
    /\ rgbOut # <<>>
    /\ rgbIn.n = MaxSamples
    /\ 0 < rgbIn.c[1] /\ rgbIn.c[1] < rgbIn.c[2] /\ rgbIn.c[2] < rgbIn.c[3]
    /\ 0 < rgbOut[1] /\ rgbOut[1] < rgbOut[2] /\ rgbOut[2] < rgbOut[3]
    /\ rgbOut[3] = 255

\* C9: the u and v passed to Camera::get_ray are in [0, 1].
C9_UVInUnitSquare ==
    uvOut # NotCalled =>
       /\ 0 <= uvOut.u[1] /\ uvOut.u[1] <= uvOut.u[2]
       /\ 0 <= uvOut.v[1] /\ uvOut.v[1] <= uvOut.v[2]

====
